---- MODULE Spec2Model ----
(***************************************************************************)
(* A model of pspec_likelihood/likelihood.py: the PSpecLikelihood          *)
(* container (constructor, discretized_ps, windowed_theoretical_ps,        *)
(* get_z_from_spw) and the module-level log_unnormalized_likelihood.       *)
(*                                                                         *)
(* Python values are tagged records.  A call's outcome is either           *)
(* Return(value) or Raise(exception class name).  Wavenumbers are even     *)
(* integers (a fixed-point grid) so that width/2 and the bin averages of   *)
(* the polynomial models used here are exact.                              *)
(***************************************************************************)
EXTENDS Integers, Sequences, FiniteSets, TLC

VARIABLES self, ctor, last

vars == <<self, ctor, last>>

(***************************** bounds **************************************)
\* longest kbin_centers / kbin_widths array
MaxBins == 3
\* bin centers are drawn from {2, 4, .., 2*MaxCenter}
MaxCenter == 3
\* longest positional parameter list handed to log_unnormalized_likelihood
MaxParams == 3

(************************** Python values **********************************)
None == [t |-> "None"]
PyStr(s) == [t |-> "str", s |-> s]
PyInt(i) == [t |-> "int", i |-> i]
PyList(s) == [t |-> "list", v |-> s]
PyTuple(s) == [t |-> "tuple", v |-> s]
PyDict(m) == [t |-> "dict", m |-> m]
\* a name with no binding in the scope where it is looked up
Unbound == [t |-> "unbound"]

Return(v) == [kind |-> "return", value |-> v]
Raise(e) == [kind |-> "raise", exc |-> e]

\* o.a = v
SetAttr(o, a, v) == [x \in (DOMAIN o) \cup {a} |-> IF x = a THEN v ELSE o[x]]

\* all sequences over S of length lo..hi
SeqsOf(S, lo, hi) == UNION {[1..n -> S] : n \in lo..hi}

IsIncreasing(s) == \A i \in 1..(Len(s) - 1) : s[i] < s[i + 1]

(*********************** inputs of the constructor *************************)
\* ps_files: one file name, a list of file names, or something else
PsFilesInputs == {PyStr("f1"), PyList(<<PyStr("f1")>>), PyInt(7)}

\* theoretical_model / bias_model: func(k, z, little_h, params) -> delta_sq
TheoreticalModels == {"flat", "linear"}
BiasModels == {"bias0"}
BiasPriors == {"prior0"}

\* k-bin centers: strictly increasing, on the even grid
KbinCenters == {c \in SeqsOf({2 * i : i \in 1..MaxCenter}, 1, MaxBins) : IsIncreasing(c)}
\* k-bin widths: one per bin, even so that width/2 is on the grid
KbinWidthsFor(c) == [1..Len(c) -> {2, 4}]

\* params_list handed to the constructor
CtorParamsLists == {None, PyList(<<"a", "b">>)}

\* the class of the instance: PSpecLikelihood itself, whose get_z_from_spw is
\* the unimplemented stub, or a subclass that fills that TODO in (the method
\* is looked up through self, so an override is what discretized_ps calls)
Classes == {"PSpecLikelihood", "WithRedshift"}

(************************ inputs of the methods ****************************)
SpectralWindows == {0, 1}
TheoryParams == {PyDict([n \in {"a"} |-> 1]), PyDict([n \in {"a"} |-> 2])}
RecognizedMethods == {"bin_center", "two_point", "integrate"}
\* "<None>" is the default method=None; "trapezoid" an unknown string
MethodInputs == RecognizedMethods \cup {"<None>", "trapezoid"}

(*************************** the user's models *****************************)
\* value of model f at the scalar wavenumber k
ModelAt(f, k, z, little_h, params) ==
    LET amp == params.m["a"]
        unit == IF little_h THEN 0 ELSE 1
    IN  CASE f = "flat" -> amp + z + unit
          [] f = "linear" -> amp * k + z + unit
          [] OTHER -> 0

\* f(kvec, z, little_h, params): a vector shaped like kvec
ModelVec(f, kvec, z, little_h, params) ==
    [i \in 1..Len(kvec) |-> ModelAt(f, kvec[i], z, little_h, params)]

\* the integral of the model over [a, b]; exact for the models above
\* (a + b is even on the grid, so the division by 2 is exact)
Integral(f, a, b, z, little_h, params) ==
    LET amp == params.m["a"]
        unit == IF little_h THEN 0 ELSE 1
    IN  CASE f = "flat" -> (amp + z + unit) * (b - a)
          [] f = "linear" -> (amp * (b * b - a * a)) \div 2 + (z + unit) * (b - a)
          [] OTHER -> 0

\* quad's absolute-error estimate: below the grid's resolution for polynomials
QuadAbsErr(f, a, b) == 0

\* scipy.integrate.quad(pk_func, a, b) -> (result, error)
quad(f, a, b, z, little_h, params) ==
    [result |-> Integral(f, a, b, z, little_h, params), error |-> QuadAbsErr(f, a, b)]

(************************ the Measurement Store ****************************)
\* grouping.spherical_average(UVPSpec(ps_files), kbin_centers, kbin_widths, ...)
spherical_average(files, centers, widths, weight_by_cov, little_h, run_check) ==
    [uvp |-> files, kbin_centers |-> centers, kbin_widths |-> widths,
     time_average |-> TRUE, weight_by_cov |-> weight_by_cov,
     add_to_history |-> "spherical average with time averaging.",
     little_h |-> little_h, run_check |-> run_check]

\* measurements.get_window_function(spw): a square window matrix over the bins
get_window_function(measurements, spw) ==
    LET n == Len(measurements.kbin_centers)
    IN  [i \in 1..n |-> [j \in 1..n |-> IF i = j THEN 1 ELSE IF j = i + 1 THEN spw ELSE 0]]

(***************************** __init__ ************************************)
NoObject == [cls |-> "<none>"]

\* PSpecLikelihood.__init__(self, **a): the outcome and the object it leaves
PSpecLikelihood_init(cls, a) ==
    LET files == IF a.ps_files.t = "str" THEN PyList(<<a.ps_files>>) ELSE a.ps_files
    IN  IF files.t # "list"
        THEN [out |-> Raise("ValueError"), obj |-> NoObject]
        ELSE LET s0 == [cls |-> cls]
                 s1 == SetAttr(s0, "measurements",
                               spherical_average(files, a.kbin_centers, a.kbin_widths,
                                                 a.weight_by_cov, a.little_h, a.run_check))
                 s2 == SetAttr(s1, "theoretical_model", a.theoretical_model)
                 s3 == SetAttr(s2, "nuisance_model", a.bias_model)
                 s4 == SetAttr(s3, "nuisance_model", a.bias_prior)
                 s5 == SetAttr(s4, "history", a.history)
                 s6 == SetAttr(s5, "little_h", a.little_h)
                 s7 == SetAttr(s6, "kbin_centers", a.kbin_centers)
                 s8 == SetAttr(s7, "kbin_widths", a.kbin_widths)
                 s9 == SetAttr(s8, "params_list", a.params_list)
             IN  [out |-> Return(None), obj |-> s9]

(*************************** get_z_from_spw ********************************)
\* the redshift a resolving subclass reports for a spectral window
Redshift(spw) == 7 + spw

get_z_from_spw(obj, spw) ==
    IF obj.cls = "PSpecLikelihood"
    THEN Raise("NotImplementedError")
    ELSE Return(Redshift(spw))

(*************************** discretized_ps ********************************)
\* a numpy vector / a Python list of numbers
PyArray(s) == [t |-> "array", v |-> s]

\* one invocation of self.theoretical_model: directly on a k-vector, or by
\* quad at its nodes inside [k[1], k[2]]
ModelCall(via, k, z, little_h, params) ==
    [via |-> via, k |-> k, z |-> z, little_h |-> little_h, params |-> params]

\* return results, errors: reading a local that was never assigned raises
ReturnPair(results, errors) ==
    IF results = Unbound \/ errors = Unbound
    THEN Raise("UnboundLocalError")
    ELSE Return([t |-> "tuple", results |-> results, errors |-> errors])

\* kbin_centers - kbin_widths / 2 and kbin_centers + kbin_widths / 2
LowerEdges(c, w) == [i \in 1..Len(c) |-> c[i] - w[i] \div 2]
UpperEdges(c, w) == [i \in 1..Len(c) |-> c[i] + w[i] \div 2]

\* for center, width in self.kbin_centers, self.kbin_widths: ...
\* items is the tuple being iterated; each item is unpacked into
\* (center, width), which raises ValueError unless the item has length 2
RECURSIVE integrate_loop(_, _, _, _)
integrate_loop(items, i, cx, acc) ==
    IF i > Len(items) THEN acc
    ELSE IF Len(items[i]) # 2 THEN [acc EXCEPT !.exc = "ValueError"]
    ELSE LET center == items[i][1]
             width == items[i][2]
             lo == center - width \div 2
             hi == center + width \div 2
             q == quad(cx.f, lo, hi, cx.z, cx.little_h, cx.params)
         IN  integrate_loop(items, i + 1, cx,
                 [acc EXCEPT !.results = Append(@, q.result \div width),
                             !.errors = Append(@, q.error \div width),
                             !.quads = Append(@, <<lo, hi>>),
                             !.calls = Append(@, ModelCall("quad", <<lo, hi>>, cx.z,
                                                           cx.little_h, cx.params))])

\* the if / elif / else chain over method and the final return, run with
\* the redshift z in hand: the outcome, the model invocations, the quadratures
bin_by_method(obj, z, theory_params, little_h, method) ==
    LET f == obj.theoretical_model
        c == obj.kbin_centers
        w == obj.kbin_widths
    IN  CASE method = "bin_center" ->
               LET results == ModelVec(f, c, z, little_h, theory_params)
               IN  [out |-> ReturnPair(PyArray(results), Unbound),
                    calls |-> <<ModelCall("direct", c, z, little_h, theory_params)>>,
                    quads |-> <<>>]
          [] method = "two_point" ->
               LET lower == ModelVec(f, LowerEdges(c, w), z, little_h, theory_params)
                   upper == ModelVec(f, UpperEdges(c, w), z, little_h, theory_params)
                   results == [i \in 1..Len(c) |-> (lower[i] + upper[i]) \div 2]
                   errors == [i \in 1..Len(c) |-> (lower[i] - upper[i]) \div 2]
               IN  [out |-> ReturnPair(PyArray(results), PyArray(errors)),
                    calls |-> <<ModelCall("direct", LowerEdges(c, w), z, little_h, theory_params),
                                ModelCall("direct", UpperEdges(c, w), z, little_h, theory_params)>>,
                    quads |-> <<>>]
          [] method = "integrate" ->
               LET cx == [f |-> f, z |-> z, little_h |-> little_h, params |-> theory_params]
                   r == integrate_loop(<<c, w>>, 1, cx,
                            [exc |-> "", results |-> <<>>, errors |-> <<>>,
                             quads |-> <<>>, calls |-> <<>>])
               IN  [out |-> IF r.exc # "" THEN Raise(r.exc)
                            ELSE ReturnPair(PyArray(r.results), PyArray(r.errors)),
                    calls |-> r.calls, quads |-> r.quads]
          [] OTHER ->
               [out |-> Raise("ValueError"), calls |-> <<>>, quads |-> <<>>]

\* a discretized_ps whose unknown methods fall back to "bin_center"
discretized_ps_fallback(obj, spw, theory_params, little_h, method) ==
    LET zr == get_z_from_spw(obj, spw)
        m == IF method \in RecognizedMethods THEN method ELSE "bin_center"
    IN  IF zr.kind = "raise" THEN [out |-> zr, calls |-> <<>>, quads |-> <<>>]
        ELSE bin_by_method(obj, zr.value, theory_params, little_h, m)

\* PSpecLikelihood.discretized_ps(self, spw, theory_params, little_h, method):
\* the redshift lookup first, then the method chain
discretized_ps(obj, spw, theory_params, little_h, method) ==
    LET zr == get_z_from_spw(obj, spw)
    IN  IF zr.kind = "raise" THEN [out |-> zr, calls |-> <<>>, quads |-> <<>>]
        ELSE bin_by_method(obj, zr.value, theory_params, little_h, method)

(*********************** windowed_theoretical_ps ***************************)
\* PSpecLikelihood.windowed_theoretical_ps(self, spw, theory_params)
windowed_theoretical_ps(obj, spw, theory_params) ==
    LET d == discretized_ps(obj, spw, theory_params, TRUE, "<None>")
    IN  IF d.out.kind = "raise" THEN d
        ELSE LET windows_ps == get_window_function(obj.measurements, spw)
             IN  [d EXCEPT !.out = Return([t |-> "tuple2", discretized_ps |-> d.out.value,
                                           windows_ps |-> windows_ps])]

(*********************** log_unnormalized_likelihood ***********************)
ParamNames == {"a", "b"}
ParamValues == {1, 2}

\* what the free name params_list can resolve to when the module-level
\* function runs: no binding at all (the module never assigns it), or a value
\* a caller has bound to it: None or a list of distinct parameter names
ParamsListBindings ==
    {Unbound, None} \cup
    {PyList(s) : s \in {q \in SeqsOf(ParamNames, 0, Cardinality(ParamNames)) :
                           \A i, j \in 1..Len(q) : i # j => q[i] # q[j]}}

\* params: a dictionary, or a list / tuple of values
ParamsInputs ==
    {PyDict(m) : m \in UNION {[D -> ParamValues] : D \in SUBSET ParamNames}}
    \cup {PyList(v) : v \in SeqsOf(ParamValues, 0, MaxParams)}
    \cup {PyTuple(v) : v \in SeqsOf(ParamValues, 0, MaxParams)}

\* len(x)
PyLen(x) ==
    CASE x.t \in {"list", "tuple", "array"} -> Return(PyInt(Len(x.v)))
      [] x.t = "dict" -> Return(PyInt(Cardinality(DOMAIN x.m)))
      [] OTHER -> Raise("TypeError")

\* iter(x), as a for statement takes it: the sequence of items, or TypeError
\* for an object that is not iterable (an int among them)
PyIter(x) ==
    CASE x.t \in {"list", "tuple", "array"} -> Return(x.v)
      [] OTHER -> Raise("TypeError")

\* the body of the for loop: key = params_list[index];
\* params_dict[key] = params[index], indices counted from 0
RECURSIVE adapter_loop(_, _, _, _, _)
adapter_loop(indices, i, names, values, params_dict) ==
    IF i > Len(indices) THEN [exc |-> "", params_dict |-> params_dict]
    ELSE LET index == indices[i] + 1
         IN  IF index \notin 1..Len(names) \/ index \notin 1..Len(values)
             THEN [exc |-> "IndexError", params_dict |-> params_dict]
             ELSE adapter_loop(indices, i + 1, names, values,
                               SetAttr(params_dict, names[index], values[index]))

\* a log_unnormalized_likelihood whose else branch lacks its assert
log_unnormalized_likelihood_unchecked(params, params_list) ==
    IF params_list = Unbound THEN [out |-> Raise("NameError"), params |-> params]
    ELSE IF params_list # None
    THEN IF params.t # "list"
         THEN [out |-> Raise("AssertionError"), params |-> params]
         ELSE [out |-> Raise("TypeError"), params |-> params]
    ELSE [out |-> Return(None), params |-> params]

\* log_unnormalized_likelihood(params), with params_list what the free name
\* resolves to: the outcome and the local params as the function leaves it
log_unnormalized_likelihood(params, params_list) ==
    IF params_list = Unbound THEN [out |-> Raise("NameError"), params |-> params]
    ELSE IF params_list # None
    THEN IF params.t # "list"
         THEN [out |-> Raise("AssertionError"), params |-> params]
         ELSE LET n == PyLen(params_list)
                  it == IF n.kind = "raise" THEN n ELSE PyIter(n.value)
              IN  IF it.kind = "raise" THEN [out |-> it, params |-> params]
                  ELSE LET r == adapter_loop(it.value, 1, params_list.v, params.v, <<>>)
                       IN  IF r.exc # "" THEN [out |-> Raise(r.exc), params |-> params]
                           ELSE [out |-> Return(None), params |-> PyDict(r.params_dict)]
    ELSE IF params.t # "dict"
         THEN [out |-> Raise("AssertionError"), params |-> params]
         ELSE [out |-> Return(None), params |-> params]

(******************************* actions ***********************************)
Init ==
    /\ self = NoObject
    /\ ctor = NoObject
    /\ last = [op |-> "<none>"]

\* obj = cls(ps_files, theoretical_model, bias_model, bias_prior, kbin_centers,
\*           kbin_widths, little_h=..., params_list=...), once per analysis
Construct ==
    /\ self = NoObject
    /\ last.op = "<none>"
    /\ \E cls \in Classes, ps_files \in PsFilesInputs, tm \in TheoreticalModels,
          bm \in BiasModels, bp \in BiasPriors, c \in KbinCenters,
          lh \in BOOLEAN, pl \in CtorParamsLists :
         \E w \in KbinWidthsFor(c) :
           LET a == [ps_files |-> ps_files, theoretical_model |-> tm, bias_model |-> bm,
                     bias_prior |-> bp, kbin_centers |-> c, kbin_widths |-> w,
                     little_h |-> lh, weight_by_cov |-> TRUE, history |-> "",
                     run_check |-> TRUE, params_list |-> pl]
               r == PSpecLikelihood_init(cls, a)
           IN  /\ self' = r.obj
               /\ ctor' = IF r.out.kind = "return" THEN a ELSE ctor
               /\ last' = [op |-> "__init__", args |-> a, out |-> r.out]

\* obj.discretized_ps(spw, theory_params, little_h, method)
DiscretizedPs ==
    /\ self # NoObject
    /\ \E spw \in SpectralWindows, tp \in TheoryParams, lh \in BOOLEAN,
          method \in MethodInputs :
         LET r == discretized_ps(self, spw, tp, lh, method)
         IN  last' = [op |-> "discretized_ps",
                      args |-> [spw |-> spw, theory_params |-> tp, little_h |-> lh,
                                method |-> method],
                      out |-> r.out, calls |-> r.calls, quads |-> r.quads]
    /\ UNCHANGED <<self, ctor>>

\* obj.windowed_theoretical_ps(spw, theory_params)
WindowedTheoreticalPs ==
    /\ self # NoObject
    /\ \E spw \in SpectralWindows, tp \in TheoryParams :
         LET r == windowed_theoretical_ps(self, spw, tp)
         IN  last' = [op |-> "windowed_theoretical_ps",
                      args |-> [spw |-> spw, theory_params |-> tp],
                      out |-> r.out, calls |-> r.calls, quads |-> r.quads]
    /\ UNCHANGED <<self, ctor>>

\* likelihood.log_unnormalized_likelihood(params)
LogUnnormalizedLikelihood ==
    /\ \E params \in ParamsInputs, pl \in ParamsListBindings :
         LET r == log_unnormalized_likelihood(params, pl)
         IN  last' = [op |-> "log_unnormalized_likelihood",
                      args |-> [params |-> params, params_list |-> pl],
                      out |-> r.out, params |-> r.params]
    /\ UNCHANGED <<self, ctor>>

\* the container: construction, then any sequence of evaluation calls
Next ==
    \/ Construct
    \/ DiscretizedPs
    \/ WindowedTheoreticalPs

Spec == Init /\ [][Next]_vars

\* the module-level function, which has no access to any container
AdapterNext == LogUnnormalizedLikelihood

AdapterSpec == Init /\ [][AdapterNext]_vars

(******************************* claims ************************************)
IsAdapterCall == last.op = "log_unnormalized_likelihood"
IsDiscretizedCall == last.op = "discretized_ps"
IsWindowedCall == last.op = "windowed_theoretical_ps"

\* the spectral window's redshift lookup returns a value
RedshiftResolves(obj, spw) == get_z_from_spw(obj, spw).kind = "return"

\* names[i] -> values[i] for every index i of names
ZipMapping(names, values) ==
    [n \in {names[i] : i \in 1..Len(names)} |->
        values[CHOOSE i \in 1..Len(names) : names[i] = n]]

\* a non-empty list of names bound to params_list, a list of values as params
ListFormCall ==
    /\ IsAdapterCall
    /\ last.args.params_list.t = "list"
    /\ Len(last.args.params_list.v) >= 1
    /\ last.args.params.t = "list"

\* C1: with a non-empty params_list and a params list of the same length,
\* normalization completes without error and leaves the mapping
\* params_list[i] -> params[i]
C1_ListFormYieldsMapping ==
    (ListFormCall /\ Len(last.args.params.v) = Len(last.args.params_list.v))
    => /\ last.out.kind = "return"
       /\ last.params = PyDict(ZipMapping(last.args.params_list.v, last.args.params.v))

\* C2: when params_list and the value sequence differ in length, the call
\* fails with the adapter's precondition failure (the assert) and leaves no mapping
C2_LengthMismatchRejected ==
    (/\ IsAdapterCall
     /\ last.args.params_list.t = "list"
     /\ last.args.params.t = "list"
     /\ Len(last.args.params.v) # Len(last.args.params_list.v))
    => /\ last.out = Raise("AssertionError")
       /\ last.params.t # "dict"

C4_ReturnsScalar ==
    IsAdapterCall =>
      LET params == last.args.params
          pl == last.args.params_list
          wellFormed == \/ (params.t = "dict" /\ pl = None)
                        \/ (ListFormCall /\ Len(params.v) = Len(pl.v))
          numeric == last.out.kind = "return" /\ last.out.value.t \in {"float", "int"}
      IN  /\ wellFormed => numeric
          /\ last.out.kind = "return" => numeric

UnknownMethodCall == IsDiscretizedCall /\ last.args.method \notin RecognizedMethods

\* C5 as stated: for every spectral window, discretized_ps with a method
\* outside the three recognized ones ends in the ValueError naming them
C5_UnknownMethodAlwaysInvalidMethod ==
    UnknownMethodCall => last.out = Raise("ValueError")

\* C5 amended: discretized_ps with a method outside the three recognized
\* ones ends in the ValueError naming them when the window's redshift resolves,
\* and in the redshift lookup's NotImplementedError when it does not
C5_UnknownMethodAfterRedshift ==
    UnknownMethodCall =>
      last.out = IF RedshiftResolves(self, last.args.spw)
                 THEN Raise("ValueError")
                 ELSE Raise("NotImplementedError")

\* the default method=None was refused on a window whose redshift resolves
C5_Witness ==
    /\ IsDiscretizedCall
    /\ last.args.method = "<None>"
    /\ RedshiftResolves(self, last.args.spw)
    /\ last.out = Raise("ValueError")

\* C6: with a resolving redshift, method "bin_center" calls the model once,
\* on the bin centers, and returns (the model's values there, None)
C6_BinCenterReturnsValuesAndNone ==
    (IsDiscretizedCall /\ last.args.method = "bin_center"
       /\ RedshiftResolves(self, last.args.spw))
    => /\ Len(last.calls) = 1
       /\ last.calls[1].k = ctor.kbin_centers
       /\ last.out.kind = "return"
       /\ last.out.value.errors = None
       /\ last.out.value.results =
            PyArray(ModelVec(ctor.theoretical_model, ctor.kbin_centers,
                             Redshift(last.args.spw), last.calls[1].little_h,
                             last.args.theory_params))

\* the value vector the three methods are specified to give
RECURSIVE SumTo(_, _)
SumTo(g, n) == IF n = 0 THEN 0 ELSE g[n] + SumTo(g, n - 1)

MatVec(W, p) == [i \in 1..Len(W) |-> SumTo([j \in 1..Len(p) |-> W[i][j] * p[j]], Len(p))]

BinnedValues(method, f, c, w, z, little_h, params) ==
    CASE method = "bin_center" -> ModelVec(f, c, z, little_h, params)
      [] method = "two_point" ->
           [i \in 1..Len(c) |->
               (ModelAt(f, c[i] - w[i] \div 2, z, little_h, params)
                + ModelAt(f, c[i] + w[i] \div 2, z, little_h, params)) \div 2]
      [] method = "integrate" ->
           [i \in 1..Len(c) |->
               Integral(f, c[i] - w[i] \div 2, c[i] + w[i] \div 2, z, little_h, params)
                   \div w[i]]

\* C7: with a resolving redshift, windowed_theoretical_ps returns the single
\* vector W p, W the window matrix of the spectral window and p the binned
\* theory vector of one of the three methods
C7_WindowedIsMatrixProduct ==
    (IsWindowedCall /\ RedshiftResolves(self, last.args.spw))
    => /\ last.out.kind = "return"
       /\ last.out.value.t = "array"
       /\ \E method \in RecognizedMethods, lh \in BOOLEAN :
            last.out.value.v =
              MatVec(get_window_function(self.measurements, last.args.spw),
                     BinnedValues(method, ctor.theoretical_model, ctor.kbin_centers,
                                  ctor.kbin_widths, Redshift(last.args.spw), lh,
                                  last.args.theory_params))

\* C8: every model invocation made during discretized_ps or
\* windowed_theoretical_ps receives the little_h the container was built
\* with, which is also the one the averaging step received
C8_LittleHForwarded ==
    (IsDiscretizedCall \/ IsWindowedCall)
    => /\ self.measurements.little_h = ctor.little_h
       /\ \A i \in 1..Len(last.calls) : last.calls[i].little_h = ctor.little_h

\* C9: with a resolving redshift, method "integrate" does one quadrature per
\* bin i over [c_i - w_i/2, c_i + w_i/2] and returns, in bin order, the
\* integrals and the quadrature errors divided by w_i, for every number of bins
C9_IntegratePairsCentersWithWidths ==
    (IsDiscretizedCall /\ last.args.method = "integrate"
       /\ RedshiftResolves(self, last.args.spw))
    => LET c == ctor.kbin_centers
           w == ctor.kbin_widths
           N == Len(c)
           lo(i) == c[i] - w[i] \div 2
           hi(i) == c[i] + w[i] \div 2
       IN  /\ last.quads = [i \in 1..N |-> <<lo(i), hi(i)>>]
           /\ last.out.kind = "return"
           /\ last.out.value.results =
                PyArray([i \in 1..N |->
                    Integral(ctor.theoretical_model, lo(i), hi(i), Redshift(last.args.spw),
                             last.args.little_h, last.args.theory_params) \div w[i]])
           /\ last.out.value.errors =
                PyArray([i \in 1..N |->
                    QuadAbsErr(ctor.theoretical_model, lo(i), hi(i)) \div w[i]])

\* the attributes that hold a callable
CallableAttrs == {"theoretical_model", "bias_model", "nuisance_model", "bias_prior",
                  "nuisance_prior"}

\* C10: once constructed, and after any calls, the container holds what the
\* constructor was given: the theoretical model, the bias model and the bias
\* prior under distinct attributes, the binning, little_h, params_list and
\* the averaged measurements
C10_OwnedDataKept ==
    self # NoObject =>
      /\ self.theoretical_model = ctor.theoretical_model
      /\ \E b, p \in CallableAttrs \cap DOMAIN self :
           b # p /\ self[b] = ctor.bias_model /\ self[p] = ctor.bias_prior
      /\ self.kbin_centers = ctor.kbin_centers
      /\ self.kbin_widths = ctor.kbin_widths
      /\ self.little_h = ctor.little_h
      /\ self.params_list = ctor.params_list
      /\ self.measurements.kbin_centers = ctor.kbin_centers
      /\ self.measurements.kbin_widths = ctor.kbin_widths

====
